---- MODULE Spec2Model ----
(***************************************************************************)
(* AudioScribe backend: upload, listing and deletion of audio files.       *)
(*                                                                         *)
(* The model covers backend/audio_files (services.py, routes.py,           *)
(* schemas.py, models.py): the path normalizer, the boundary validator,    *)
(* the storage writer, the record accessor and the directory remover,      *)
(* over an explicit filesystem (directories and files keyed by absolute    *)
(* path) and an explicit audio_files table.                                *)
(*                                                                         *)
(* Python strings are TLA+ strings; a character is a string of length 1.   *)
(* The os.path functions are the posixpath ones.                           *)
(***************************************************************************)
EXTENDS Integers, Sequences, FiniteSets, TLC

VARIABLES
    dirs,     \* the directories that exist on disk (absolute paths)
    files,    \* the regular files on disk: absolute path -> content (its pieces)
    table,    \* the audio_files table: id -> row
    nextId,   \* the value the id sequence hands out next
    tasks,    \* the request handlers in flight, one per task slot
    nops,     \* how many requests have been started
    last,     \* the request that completed last, with its response
    served,   \* how many uploads returned a record, how many deletes returned True
    probe,    \* argument and result of a direct call of the normalizer
    wrote,    \* the upload whose write to disk ended last
    returned  \* the uploads that returned a record

vars == <<dirs, files, table, nextId, tasks, nops, last, served, probe, wrote, returned>>

(***************************************************************************)
(* Bounds of the model.                                                    *)
(***************************************************************************)
\* requests started in one behaviour
MaxOps == 3
\* request handlers in flight at the same time
MaxTasks == 2
\* length of the strings enumerated for the normalizer
MaxLen == 4
\* whole blocks of the longest upload body
MaxBlocks == 1
\* pieces a block is written and read in
ChunkPieces == 2

(***************************************************************************)
(* Strings.                                                                *)
(***************************************************************************)
\* s[i] of Python, 1-based
Ch(s, i) == SubSeq(s, i, i)

\* s.startswith(p)
StartsWith(s, p) == Len(p) <= Len(s) /\ SubSeq(s, 1, Len(p)) = p

\* s.endswith(p)
EndsWith(s, p) == Len(p) <= Len(s) /\ SubSeq(s, Len(s) - Len(p) + 1, Len(s)) = p

\* p in s
Contains(s, p) == \E i \in 1..(Len(s) - Len(p) + 1) : SubSeq(s, i, i + Len(p) - 1) = p

\* the characters str.strip() removes (str.isspace): space, \t, \n, \r, \f and,
\* written as the characters themselves, U+000B, U+001C, U+001D, U+001E,
\* U+001F, U+0085, U+00A0 and U+1680 (this module is UTF-8 text; read in
\* another encoding the last three are no characters and match nothing).
\* str.strip() also removes U+2000..U+200A, U+2028, U+2029, U+202F, U+205F
\* and U+3000, which a string of this module cannot hold; no input of the
\* model contains them.
Whitespace ==
    {" ", "\t", "\n", "\r", "\f", "", "", "", "", "", "", " ",
     " "}

RECURSIVE Replace(_, _, _)
\* s.replace(old, new) for a single character old
Replace(s, old, new) ==
    IF s = "" THEN ""
    ELSE (IF Head(s) = old THEN new ELSE Head(s)) \o Replace(Tail(s), old, new)

RECURSIVE LStrip(_, _)
\* s.lstrip(chars)
LStrip(s, chars) ==
    IF s # "" /\ Head(s) \in chars THEN LStrip(Tail(s), chars) ELSE s

RECURSIVE RStrip(_, _)
\* s.rstrip(chars)
RStrip(s, chars) ==
    IF s # "" /\ Ch(s, Len(s)) \in chars
    THEN RStrip(SubSeq(s, 1, Len(s) - 1), chars)
    ELSE s

\* s.strip(chars); s.strip() is Strip(s, Whitespace)
Strip(s, chars) == RStrip(LStrip(s, chars), chars)

RECURSIVE LastSlash(_)
\* s.rfind("/") + 1: the index (1-based) of the last slash, 0 when there is none
LastSlash(s) ==
    IF s = "" THEN 0
    ELSE IF Ch(s, Len(s)) = "/" THEN Len(s)
    ELSE LastSlash(SubSeq(s, 1, Len(s) - 1))

RECURSIVE FirstSlash(_, _)
\* s.find("/", i - 1) + 1: the index of the first slash at or after i, 0 when
\* there is none
FirstSlash(s, i) ==
    IF i > Len(s) THEN 0
    ELSE IF Ch(s, i) = "/" THEN i
    ELSE FirstSlash(s, i + 1)

RECURSIVE Split(_)
\* s.split("/")
Split(s) ==
    LET i == FirstSlash(s, 1)
    IN  IF i = 0 THEN <<s>>
        ELSE <<SubSeq(s, 1, i - 1)>> \o Split(SubSeq(s, i + 1, Len(s)))

RECURSIVE JoinSlash(_)
\* "/".join(comps)
JoinSlash(comps) ==
    IF comps = <<>> THEN ""
    ELSE IF Len(comps) = 1 THEN comps[1]
    ELSE comps[1] \o "/" \o JoinSlash(Tail(comps))

(***************************************************************************)
(* posixpath.                                                              *)
(***************************************************************************)
\* os.path.basename(p)
basename(p) == SubSeq(p, LastSlash(p) + 1, Len(p))

\* os.path.dirname(p)
dirname(p) ==
    LET head == SubSeq(p, 1, LastSlash(p))
    IN  IF head # "" /\ LStrip(head, {"/"}) # "" THEN RStrip(head, {"/"}) ELSE head

\* os.path.split(p)
split(p) ==
    LET head == SubSeq(p, 1, LastSlash(p))
        tail == SubSeq(p, LastSlash(p) + 1, Len(p))
    IN  <<IF head # "" /\ LStrip(head, {"/"}) # "" THEN RStrip(head, {"/"}) ELSE head, tail>>

\* os.path.join(a, b)
join(a, b) ==
    IF StartsWith(b, "/") THEN b
    ELSE IF a = "" \/ EndsWith(a, "/") THEN a \o b
    ELSE a \o "/" \o b

\* os.path.join(a, b, c)
join3(a, b, c) == join(join(a, b), c)

RECURSIVE NormComps(_, _, _)
\* the loop of os.path.normpath over the components
NormComps(comps, new, initial) ==
    IF comps = <<>> THEN new
    ELSE LET comp == Head(comps)
         IN  IF comp \in {"", "."} THEN NormComps(Tail(comps), new, initial)
             ELSE IF \/ comp # ".."
                     \/ (initial = 0 /\ new = <<>>)
                     \/ (new # <<>> /\ new[Len(new)] = "..")
                  THEN NormComps(Tail(comps), Append(new, comp), initial)
             ELSE IF new # <<>>
                  THEN NormComps(Tail(comps), SubSeq(new, 1, Len(new) - 1), initial)
             ELSE NormComps(Tail(comps), new, initial)

\* os.path.normpath(p)
normpath(p) ==
    IF p = "" THEN "."
    ELSE LET initial == IF ~StartsWith(p, "/") THEN 0
                        ELSE IF StartsWith(p, "//") /\ ~StartsWith(p, "///") THEN 2
                        ELSE 1
             body == JoinSlash(NormComps(Split(p), <<>>, initial))
             path == (IF initial = 2 THEN "//" ELSE IF initial = 1 THEN "/" ELSE "") \o body
         IN  IF path = "" THEN "." ELSE path

\* os.getcwd(): the working directory of the server process
Cwd == "/app"

\* os.path.abspath(p)
abspath(p) == normpath(IF StartsWith(p, "/") THEN p ELSE join(Cwd, p))

(***************************************************************************)
(* services.py: the path normalizer.                                       *)
(***************************************************************************)
UPLOAD_DIR == "./uploads"

\* a normalizer that drops the last segment whether dotted or not
NormalizeDropsLast(relative_path) ==
    dirname(Strip(Strip(Replace(relative_path, "\\", "/"), Whitespace), {"/"}))

\* lines 17-25: the result for the trimmed path of line 16
normalize_trimmed(path) ==
    IF path = "" THEN ""
    ELSE IF Contains(basename(path), ".") THEN dirname(path)
    ELSE path

_normalize_relative_path(relative_path) ==
    normalize_trimmed(Strip(Strip(Replace(relative_path, "\\", "/"), Whitespace), {"/"}))

(***************************************************************************)
(* schemas.py: the boundary validator of the upload request.               *)
(***************************************************************************)
\* the characters of the class [<>:"|?*]
ForbiddenChars == {"<", ">", ":", "\"", "|", "?", "*"}

\* a validator without the ".." check
ValidateAllowsDotDot(v) ==
    /\ ~Contains(v, "\\")
    /\ ~StartsWith(v, "/")
    /\ ~\E i \in 1..Len(v) : Ch(v, i) \in ForbiddenChars

\* TRUE when validate_path returns v, FALSE when it raises ValueError
validate_path(v) ==
    /\ ~Contains(v, "\\")
    /\ ~StartsWith(v, "/")
    /\ ~Contains(v, "..")
    /\ ~\E i \in 1..Len(v) : Ch(v, i) \in ForbiddenChars

(***************************************************************************)
(* The requests the model issues.                                          *)
(***************************************************************************)
\* members of core.config.WhisperModel
Models == {"base", "small"}

\* upload requests: (model, relative_path, file name of the multipart body).
\* Into a model's root and into a directory given with a file name; a file
\* named like the directory; an absolute file name; a second model; and one
\* relative_path of each kind the boundary validator refuses ("..", a
\* leading slash, a backslash, a forbidden character).
UploadRequests ==
    {<<"base", "", "t.wav">>, <<"base", "songs/ep.mp3", "t.wav">>,
     <<"base", "", "songs">>, <<"base", "", "/app/x.wav">>, <<"small", "", "t.wav">>,
     <<"base", "../x", "t.wav">>, <<"base", "/abs", "t.wav">>,
     <<"base", "a\\b", "t.wav">>, <<"base", "a:b", "t.wav">>}

\* sizes of upload bodies, in pieces: shorter than one block, and MaxBlocks
\* blocks with a shorter one after them
Small == 1

Big == MaxBlocks * ChunkPieces + 1

\* the bodies an upload request comes with: a short one, and for the file
\* name that a download can reach on disk a long one as well
UploadSizes(filename) == IF filename = "/app/x.wav" THEN {Small, Big} ELSE {Small}

\* directory-delete requests: (model, relative_path); the last relative_path
\* is the one character U+000B
DirRequests ==
    {<<"base", "">>, <<"base", "songs">>, <<"base", "..">>, <<"base", "../..">>,
     <<"base", "../../etc">>, <<"base", "../../tmp">>, <<"base", "../../uploads2">>,
     <<"small", "">>, <<"base", "">>}

(***************************************************************************)
(* services.py: save_audio_file, the part that runs before the first await *)
(* (lines 39-51): where the file and the row will go.                      *)
(***************************************************************************)
\* db_file_path of lines 43-47, for the rel_dir of line 42
db_file_path(model_name, rel_dir, filename) ==
    IF rel_dir # "" THEN join3(model_name, rel_dir, filename)
    ELSE join(model_name, filename)

\* target_dir of lines 43-48 (and of lines 109-113), for the rel_dir of
\* line 42 (108)
target_dir(model_name, rel_dir) ==
    IF rel_dir # "" THEN join3(UPLOAD_DIR, model_name, rel_dir)
    ELSE join(UPLOAD_DIR, model_name)

\* file_path of line 51, with the two paths before it
paths_record(db_path, dir, filename) ==
    [db_file_path |-> db_path, target_dir |-> dir, file_path |-> join(dir, filename)]

\* lines 43-51 for the rel_dir of line 42
paths_in(model_name, rel_dir, filename) ==
    paths_record(db_file_path(model_name, rel_dir, filename),
                 target_dir(model_name, rel_dir), filename)

\* the paths save_audio_file computes for a request, none of which depends
\* on the state
save_paths(model_name, relative_path, filename) ==
    paths_in(model_name, _normalize_relative_path(relative_path), filename)

\* save_paths of the model's upload requests, computed once
SavePaths == [r \in UploadRequests |-> save_paths(r[1], r[2], r[3])]

\* validate_path of the model's upload requests, computed once
Accepted == [v \in {r[2] : r \in UploadRequests} |-> validate_path(v)]

(***************************************************************************)
(* services.py: the paths delete_directory computes (lines 108-115).       *)
(***************************************************************************)
\* abs_upload_dir of line 114
abs_upload_dir == abspath(UPLOAD_DIR)

\* abs_target_dir of line 115
abs_target_dir(model_name, relative_path) ==
    abspath(target_dir(model_name, _normalize_relative_path(relative_path)))

\* abs_target_dir of the model's directory-delete requests, computed once
AbsTargetDirs == [r \in DirRequests |-> abs_target_dir(r[1], r[2])]

(***************************************************************************)
(* The paths the requests of the model hand to the os functions are few,   *)
(* and their components do not depend on the state: they are computed      *)
(* once.                                                                   *)
(***************************************************************************)
RECURSIVE Heads(_)
\* p and the heads os.path.split peels off it
Heads(p) ==
    IF p = "" \/ split(p)[1] = p THEN {p}
    ELSE {p} \cup Heads(split(p)[1])

\* the paths of the requests: the upload root, each upload's directory and
\* file, the file a delete looks for, the file a download opens, each
\* directory delete's target
RequestPaths ==
    {UPLOAD_DIR}
    \cup UNION {{x.target_dir, x.file_path, join(UPLOAD_DIR, x.db_file_path),
                 x.db_file_path} :
                   x \in {SavePaths[r] : r \in UploadRequests}}
    \cup {AbsTargetDirs[r] : r \in DirRequests}

KnownPaths == UNION {Heads(q) : q \in RequestPaths}

\* the components the kernel walks for p, from the root
components(p) == Split(IF StartsWith(p, "/") THEN p ELSE join(Cwd, p))

Components == [p \in KnownPaths |-> components(p)]

Splits == [p \in KnownPaths |-> split(p)]

(***************************************************************************)
(* The filesystem the os and shutil calls act on.  There are no symbolic   *)
(* links, so the kernel resolves a path component by component: every      *)
(* component it walks through must be an existing directory.  The empty    *)
(* path resolves to nothing (ENOENT).  A slash that ends a path names no   *)
(* component: os.mkdir makes the directory named before it, and every      *)
(* other call wants a directory there.                                     *)
(***************************************************************************)
Child(cur, name) == IF cur = "/" THEN "/" \o name ELSE cur \o "/" \o name

Parent(cur) ==
    LET head == SubSeq(cur, 1, LastSlash(cur) - 1)
    IN  IF head = "" THEN "/" ELSE head

RECURSIVE Walk(_, _, _)
\* the kernel's path walk from directory cur; "" when a component that is
\* walked through is missing or is no directory (ENOENT, ENOTDIR).  The
\* empty component that a slash leaves behind is no step of the walk.
Walk(comps, cur, D) ==
    IF comps = <<>> THEN cur
    ELSE IF Head(comps) = "" THEN Walk(Tail(comps), cur, D)
    ELSE IF cur \notin D THEN ""
    ELSE IF Head(comps) = "." THEN Walk(Tail(comps), cur, D)
    ELSE IF Head(comps) = ".." THEN Walk(Tail(comps), Parent(cur), D)
    ELSE Walk(Tail(comps), Child(cur, Head(comps)), D)

\* the absolute path the kernel resolves p to, whether or not something is
\* there; "" when the walk fails, as it does at once for the empty path
OsResolve(p, D) ==
    IF p = "" THEN ""
    ELSE Walk(IF p \in KnownPaths THEN Components[p] ELSE components(p), "/", D)

\* where a call that looks p up (stat, open, unlink) ends: a path that ends
\* in a slash must lead to a directory
OsLookup(p, D) ==
    IF EndsWith(p, "/") /\ OsResolve(p, D) \notin D THEN "" ELSE OsResolve(p, D)

\* something is at the resolved path r
Entry(r, D, F) == r # "" /\ (r \in D \/ r \in DOMAIN F)

\* os.path.exists(p)
exists(p, D, F) == Entry(OsLookup(p, D), D, F)

\* a directory is at the resolved path r
DirEntry(r, D) == r # "" /\ r \in D

\* os.path.isdir(p)
isdir(p, D) == DirEntry(OsLookup(p, D), D)

\* os.mkdir at the resolved path r (a slash at the end of the name does not
\* matter to it)
MkdirAt(r, D, F) ==
    IF r = "" \/ r \in D \/ r \in DOMAIN F
    THEN [ok |-> FALSE, dirs |-> D]
    ELSE [ok |-> TRUE, dirs |-> D \cup {r}]

\* os.mkdir(name): the directories afterwards, ok = FALSE when it raises OSError
mkdir(name, D, F) == MkdirAt(OsResolve(name, D), D, F)

\* os.path.split(p), from the table when p is one of KnownPaths
SplitOf(p) == IF p \in KnownPaths THEN Splits[p] ELSE split(p)

\* makedirs: `head, tail = path.split(name)`, and once more on the head when
\* the tail is empty
HeadTail(s1) == IF s1[2] # "" THEN s1 ELSE SplitOf(s1[1])

\* makedirs: the mkdir of name, `if not exist_ok or not path.isdir(name): raise`
MkdirOrIsdir(name, made, D) ==
    IF made.ok THEN made ELSE [ok |-> isdir(name, D), dirs |-> D]

\* makedirs after the head was made: up is what making the head gave, and
\* climbed tells that it was made
MakedirsLeaf(name, tail, climbed, up, F) ==
    IF ~up.ok THEN [ok |-> FALSE, dirs |-> up.dirs]
    ELSE IF climbed /\ tail = "." THEN up
    ELSE MkdirOrIsdir(name, mkdir(name, up.dirs, F), up.dirs)

RECURSIVE makedirs(_, _, _)
\* makedirs: `if head and tail and not path.exists(head): makedirs(head)`
MakedirsHead(name, head, tail, climb, D, F) ==
    MakedirsLeaf(name, tail, climb,
                 IF climb THEN makedirs(head, D, F) ELSE [ok |-> TRUE, dirs |-> D], F)

\* makedirs for the head and tail name splits into
MakedirsSplit(name, ht, D, F) ==
    MakedirsHead(name, ht[1], ht[2],
                 ht[1] # "" /\ ht[2] # "" /\ ~exists(ht[1], D, F), D, F)

\* os.makedirs(name, exist_ok=True): the directories afterwards, ok = FALSE
\* when it raises
makedirs(name, D, F) == MakedirsSplit(name, HeadTail(SplitOf(name)), D, F)

(***************************************************************************)
(* The content of a file: the sequence of its pieces.  A piece is the part *)
(* of a block that a write has put on disk, or a read has copied, when     *)
(* another thread looks; ChunkPieces pieces are one block of the size      *)
(* FileResponse reads at a time.  What is kept of a piece is whose bytes   *)
(* it holds: the number of the upload request that wrote them, 0 for what  *)
(* was on disk at the start and for bytes nobody wrote.                    *)
(***************************************************************************)
\* a body of `size` pieces, every byte of it written by request v
Content(v, size) == [i \in 1..size |-> v]

\* st_size of a file with this content
Size(content) == Len(content)

\* a file without bytes
Empty == <<>>

\* open(r, "r+b"): a file that is there keeps what it holds
OpenKeepsContent(r, D, F) ==
    IF r = "" \/ r \in D
    THEN [ok |-> FALSE, files |-> F]
    ELSE [ok |-> TRUE,
          files |-> [q \in DOMAIN F \cup {r} |-> IF q \in DOMAIN F THEN F[q] ELSE Empty]]

\* open(r, "wb") at the resolved path r: the file is created, or truncated
\* when it is there; ok = FALSE when open raises (missing parent, or r is a
\* directory)
OpenAt(r, D, F) ==
    IF r = "" \/ r \in D
    THEN [ok |-> FALSE, files |-> F]
    ELSE [ok |-> TRUE,
          files |-> [q \in DOMAIN F \cup {r} |-> IF q = r THEN Empty ELSE F[q]]]

\* open(p, "wb"): the files afterwards
open_wb(p, D, F) == OpenAt(OsLookup(p, D), D, F)

\* what `held` holds once piece i of it has been written with v: the pieces
\* around it stay, and a file that ended before piece i has zeros up to it
written(held, i, v) ==
    [j \in 1..(IF Len(held) < i THEN i ELSE Len(held)) |->
        IF j = i THEN v ELSE IF j <= Len(held) THEN held[j] ELSE 0]

\* f.write(content) as far as its i-th piece, in the file opened at r: the
\* writer's position is its own, whatever the file holds
f_write(r, i, v, F) == [q \in DOMAIN F |-> IF q = r THEN written(F[q], i, v) ELSE F[q]]

\* line 50 after line 39 gave root: the makedirs of the target directory,
\* which a raising line 39 does not reach
makedirs_target(root, dir, F) == IF root.ok THEN makedirs(dir, root.dirs, F) ELSE root

\* the makedirs of lines 39 and 50
makedirs_both(dir, D, F) == makedirs_target(makedirs(UPLOAD_DIR, D, F), dir, F)

\* os.remove(p) on a path for which os.path.exists(p) held: the files
\* afterwards (a directory is left alone: os.remove raises and the caller
\* catches it)
remove(p, D, F) ==
    LET r == OsLookup(p, D) IN [q \in DOMAIN F \ {r} |-> F[q]]

\* p is top or lies below it
Under(p, top) == p = top \/ StartsWith(p, Child(top, ""))

\* shutil.rmtree(top) for an absolute normalized top: ok = FALSE when top is
\* not a directory (rmtree raises NotADirectoryError)
rmtree(top, D, F) ==
    IF top \notin D
    THEN [ok |-> FALSE, dirs |-> D, files |-> F]
    ELSE [ok |-> TRUE,
          dirs |-> {d \in D : ~Under(d, top)},
          files |-> [q \in {f \in DOMAIN F : ~Under(f, top)} |-> F[q]]]

(***************************************************************************)
(* models.py: a row of audio_files, as save_audio_file builds it.          *)
(***************************************************************************)
AudioFile(filename, file_path, model_name) ==
    [filename |-> filename, file_path |-> file_path, whisper_model |-> model_name,
     status_processing |-> "pending"]

\* an id column that is not autoincremented: every row gets the first id
ConstantId == CHOOSE i \in 1..MaxOps : \A j \in 1..MaxOps : i <= j

\* the id a new row gets: the column is an autoincrement primary key
new_id == nextId

\* the row get_audio_file returns when there is none
None == [filename |-> "", file_path |-> "", whisper_model |-> "",
         status_processing |-> "none"]

(***************************************************************************)
(* services.py: the record accessor's reads.                               *)
(***************************************************************************)
get_audio_file(file_id) == IF file_id \in DOMAIN table THEN table[file_id] ELSE None

\* the ids of the rows list_audio_files returns
list_audio_files == DOMAIN table

(***************************************************************************)
(* services.py: delete_directory.  It has no await: it runs in one step.   *)
(***************************************************************************)
\* the containment check of line 116
InsideUploadDir(target) == StartsWith(target, abs_upload_dir)

\* lines 124-130: what rmtree did decides between "deleted" and "error"
Removed(gone, D, F) ==
    IF gone.ok
    THEN [status |-> "deleted", dirs |-> gone.dirs, files |-> gone.files]
    ELSE [status |-> "error", dirs |-> D, files |-> F]

\* abs_target_dir of line 115, from the table for a request of the model
AbsTargetDirOf(r) ==
    IF r \in DirRequests THEN AbsTargetDirs[r] ELSE abs_target_dir(r[1], r[2])

\* lines 116-130 without the os.path.exists test
DeleteTargetNoExistsCheck(target, D, F) ==
    IF ~InsideUploadDir(target)
    THEN [status |-> "error", dirs |-> D, files |-> F]
    ELSE Removed(rmtree(target, D, F), D, F)

\* delete_directory without the os.path.exists test: rmtree raises on a
\* missing target
DeleteDirectoryNoExistsCheck(model_name, relative_path, D, F) ==
    DeleteTargetNoExistsCheck(AbsTargetDirOf(<<model_name, relative_path>>), D, F)

\* lines 116-130 for the abs_target_dir of line 115
delete_target(target, D, F) ==
    IF ~InsideUploadDir(target)
    THEN [status |-> "error", dirs |-> D, files |-> F]
    ELSE IF ~exists(target, D, F)
    THEN [status |-> "not_found", dirs |-> D, files |-> F]
    ELSE Removed(rmtree(target, D, F), D, F)

\* the status delete_directory returns with the filesystem it leaves
delete_directory(model_name, relative_path, D, F) ==
    delete_target(AbsTargetDirOf(<<model_name, relative_path>>), D, F)

(***************************************************************************)
(* Request handlers.                                                       *)
(***************************************************************************)
\* record ids of delete requests
Ids == 1..MaxOps

Slots == 1..MaxTasks

Idle == [pc |-> "idle"]

\* the slot a new request's handler takes: the first idle one
FreeSlot(t) == tasks[t] = Idle /\ \A u \in Slots : u < t => tasks[u] # Idle

\* core/exceptions.py DatabaseException: its status_code
HTTP_500_INTERNAL_SERVER_ERROR == 500

(***************************************************************************)
(* core/database.py get_async_session, for a handler that raises           *)
(* HTTPException(status_code): the exception is thrown into the dependency *)
(* at its yield, `except Exception` catches it, the session is rolled back *)
(* and DatabaseException is raised in its place, so the client is answered *)
(* with DatabaseException's status whatever the route raised.  (This is    *)
(* how FastAPI from 0.106 on runs a dependency with yield.)                *)
(***************************************************************************)
get_async_session(status_code) == HTTP_500_INTERNAL_SERVER_ERROR

(***************************************************************************)
(* The handlers run on one event loop: between two of its awaits a handler *)
(* is not interrupted by another, and a handler that awaits runs on only   *)
(* when the loop is free.  FileResponse's os.stat, open and read run in    *)
(* worker threads, at any moment, and their results wait for the loop.     *)
(* The one block of a handler whose inside a thread can tell from its ends *)
(* is open(file_path, "wb") followed by f.write(content): the file is      *)
(* empty after the open and grows while the write goes on.  A handler in   *)
(* that block has pc "write".                                              *)
(***************************************************************************)
LoopIdle == \A u \in Slots : tasks[u].pc # "write"

(***************************************************************************)
(* The files that downloads in flight hold open, once the files of the     *)
(* tree have become F: a file opened or written in place (open(path,       *)
(* "wb"), f.write) is read with what it holds now, a file unlinked         *)
(* (os.remove, shutil.rmtree) keeps for its reader what it had, whatever   *)
(* is created at its path later.                                           *)
(***************************************************************************)
Handles(T, F) ==
    [t \in Slots |->
        IF T[t].pc \in {"open", "opened", "chunk"} /\ T[t].linked
        THEN IF T[t].at \in DOMAIN F
             THEN [T[t] EXCEPT !.data = F[T[t].at]]
             ELSE [T[t] EXCEPT !.linked = FALSE]
        ELSE T[t]]

(***************************************************************************)
(* Initial state: an empty table, no upload root yet, and next to where    *)
(* the upload root will be two directories that do not belong to it.       *)
(***************************************************************************)
Init ==
    /\ dirs = {"/", "/app", "/app/etc", "/app/uploads2"}
    /\ files = [q \in {"/app/etc/app.conf", "/app/uploads2/old.wav"} |->
                    Content(0, Small)]
    /\ table = <<>>
    /\ nextId = 1
    /\ tasks = [t \in Slots |-> Idle]
    /\ nops = 0
    /\ last = [n |-> 0, op |-> "none"]
    /\ served = [uploads |-> 0, deletes |-> 0]
    /\ probe = [arg |-> "", called |-> FALSE, ret |-> ""]
    /\ wrote = [n |-> 0]
    /\ returned = {}

(***************************************************************************)
(* routes.py upload_audio: the request's relative_path fails               *)
(* AudioFileUploadRequest.validate_path, the dependency raises and the     *)
(* handler body never runs.                                                *)
(***************************************************************************)
upload_audio_rejected(model_name, relative_path, filename) ==
    /\ LoopIdle
    /\ nops < MaxOps
    /\ ~Accepted[relative_path]
    /\ nops' = nops + 1
    /\ last' = [n |-> nops + 1, op |-> "upload_audio", relative_path |-> relative_path,
                model_name |-> model_name, filename |-> filename, status |-> "rejected"]
    /\ UNCHANGED <<dirs, files, table, nextId, tasks, served, probe, wrote, returned>>

(***************************************************************************)
(* save_audio_file up to `await file.read()`: both makedirs calls.         *)
(* A makedirs that raises ends the request with the error propagated.      *)
(***************************************************************************)
upload_audio(t, model_name, relative_path, filename, size) ==
    /\ LoopIdle
    /\ nops < MaxOps
    /\ FreeSlot(t)
    /\ Accepted[relative_path]
    /\ nops' = nops + 1
    /\ \E paths \in {SavePaths[<<model_name, relative_path, filename>>]} :
       \E made \in {makedirs_both(paths.target_dir, dirs, files)} :
          /\ dirs' = made.dirs
          /\ IF made.ok
             THEN /\ tasks' = [tasks EXCEPT ![t] =
                        [pc |-> "read", n |-> nops + 1, model_name |-> model_name,
                         relative_path |-> relative_path, filename |-> filename,
                         db_file_path |-> paths.db_file_path,
                         file_path |-> paths.file_path,
                         content |-> Content(nops + 1, size)]]
                  /\ last' = last
             ELSE /\ tasks' = tasks
                  /\ last' = [n |-> nops + 1, op |-> "upload_audio",
                              relative_path |-> relative_path, model_name |-> model_name,
                              filename |-> filename, status |-> "error",
                              failed |-> "makedirs"]
    /\ UNCHANGED <<files, table, nextId, served, probe, wrote, returned>>

\* an open step that goes on to the write and the commit when open raises
SaveOpenIgnoresError(t) ==
    LET me == tasks[t]
    IN  /\ LoopIdle
        /\ me.pc = "read"
        /\ \E opened \in {open_wb(me.file_path, dirs, files)} :
              /\ files' = opened.files
              /\ tasks' = Handles([tasks EXCEPT ![t] =
                     [pc |-> "write", n |-> me.n, model_name |-> me.model_name,
                      relative_path |-> me.relative_path, filename |-> me.filename,
                      db_file_path |-> me.db_file_path, file_path |-> me.file_path,
                      content |-> me.content,
                      at |-> OsLookup(me.file_path, dirs), done |-> 0]], opened.files)
        /\ UNCHANGED <<dirs, table, nextId, nops, last, served, probe, wrote, returned>>

(***************************************************************************)
(* save_audio_file from the return of `await file.read()`:                 *)
(* open(file_path, "wb").  An open that raises ends the request with the   *)
(* error.                                                                  *)
(***************************************************************************)
save_open(t) ==
    LET me == tasks[t]
    IN  /\ LoopIdle
        /\ me.pc = "read"
        /\ \E opened \in {open_wb(me.file_path, dirs, files)} :
              /\ files' = opened.files
              /\ IF opened.ok
                 THEN /\ tasks' = Handles([tasks EXCEPT ![t] =
                            [pc |-> "write", n |-> me.n, model_name |-> me.model_name,
                             relative_path |-> me.relative_path,
                             filename |-> me.filename,
                             db_file_path |-> me.db_file_path,
                             file_path |-> me.file_path, content |-> me.content,
                             at |-> OsLookup(me.file_path, dirs), done |-> 0]],
                                          opened.files)
                      /\ last' = last
                 ELSE /\ tasks' = [tasks EXCEPT ![t] = Idle]
                      /\ last' = [n |-> me.n, op |-> "upload_audio",
                                  relative_path |-> me.relative_path,
                                  model_name |-> me.model_name, filename |-> me.filename,
                                  status |-> "error", failed |-> "write"]
        /\ UNCHANGED <<dirs, table, nextId, nops, served, probe, wrote, returned>>

(***************************************************************************)
(* save_audio_file, in the same block: f.write(content) and the close of   *)
(* the file.  The bytes reach the file piece by piece, me.done of them so  *)
(* far, and a thread that looks in between finds the file as long as it    *)
(* has become.  With the last piece the file is closed and the handler     *)
(* goes on, through session.add, to `await session.commit()`.  A write     *)
(* that raises (a full disk, an I/O error) leaves the file as far as it    *)
(* got and ends the request with the error.                                *)
(***************************************************************************)
save_write(t) ==
    LET me == tasks[t]
    IN  /\ me.pc = "write"
        /\ \E raised \in BOOLEAN :
              IF raised
              THEN /\ files' = files
                   /\ tasks' = [tasks EXCEPT ![t] = Idle]
                   /\ last' = [n |-> me.n, op |-> "upload_audio",
                               relative_path |-> me.relative_path,
                               model_name |-> me.model_name, filename |-> me.filename,
                               status |-> "error", failed |-> "write"]
                   /\ wrote' = wrote
              ELSE \E grown \in {f_write(me.at, me.done + 1, me.content[me.done + 1],
                                         files)} :
                      /\ files' = grown
                      /\ last' = last
                      /\ IF me.done + 1 < Len(me.content)
                         THEN /\ tasks' = Handles([tasks EXCEPT ![t] =
                                    [me EXCEPT !.done = @ + 1]], grown)
                              /\ wrote' = wrote
                         ELSE /\ tasks' = Handles([tasks EXCEPT ![t] =
                                    [pc |-> "commit", n |-> me.n,
                                     model_name |-> me.model_name,
                                     relative_path |-> me.relative_path,
                                     filename |-> me.filename,
                                     db_file_path |-> me.db_file_path,
                                     file_path |-> me.file_path,
                                     content |-> me.content]], grown)
                              /\ wrote' = [n |-> me.n, at |-> me.at,
                                           content |-> me.content]
        /\ UNCHANGED <<dirs, table, nextId, nops, served, probe, returned>>

(***************************************************************************)
(* save_audio_file, `await session.commit()`: the commit inserts the row   *)
(* and the id comes from the table's sequence.  The handler is suspended   *)
(* again, in `await session.refresh(audio)`.                               *)
(***************************************************************************)
save_commit(t) ==
    LET me == tasks[t]
        audio == AudioFile(me.filename, me.db_file_path, me.model_name)
    IN  /\ LoopIdle
        /\ me.pc = "commit"
        /\ table' = [i \in DOMAIN table \cup {new_id} |->
                        IF i = new_id THEN audio ELSE table[i]]
        /\ nextId' = nextId + 1
        /\ tasks' = [tasks EXCEPT ![t] =
                        [pc |-> "refresh", n |-> me.n, model_name |-> me.model_name,
                         relative_path |-> me.relative_path, filename |-> me.filename,
                         db_file_path |-> me.db_file_path, file_path |-> me.file_path,
                         content |-> me.content, id |-> new_id]]
        /\ UNCHANGED <<dirs, files, nops, last, served, probe, wrote, returned>>

(***************************************************************************)
(* save_audio_file, `await session.refresh(audio)` and the return: the row *)
(* is read again by its id and the handler returns the record.  A row that *)
(* was deleted since the commit makes refresh raise: the request ends in   *)
(* an error, with the row it inserted gone and the file where it was left. *)
(***************************************************************************)
save_refresh(t) ==
    LET me == tasks[t]
    IN  /\ LoopIdle
        /\ me.pc = "refresh"
        /\ IF get_audio_file(me.id) # None
           THEN /\ served' = [served EXCEPT !.uploads = @ + 1]
                /\ returned' = returned \cup
                      {[n |-> me.n, id |-> me.id, content |-> me.content,
                        request |-> <<me.model_name, me.relative_path, me.filename>>]}
                /\ last' = [n |-> me.n, op |-> "upload_audio",
                            relative_path |-> me.relative_path,
                            model_name |-> me.model_name, filename |-> me.filename,
                            status |-> "ok", id |-> me.id]
           ELSE /\ served' = served
                /\ returned' = returned
                /\ last' = [n |-> me.n, op |-> "upload_audio",
                            relative_path |-> me.relative_path,
                            model_name |-> me.model_name, filename |-> me.filename,
                            status |-> "error", failed |-> "refresh"]
        /\ tasks' = [tasks EXCEPT ![t] = Idle]
        /\ UNCHANGED <<dirs, files, table, nextId, nops, probe, wrote>>

(***************************************************************************)
(* delete_audio_file: `await get_audio_file`.  Without a row it returns    *)
(* False and the route raises HTTPException(404), which reaches the client *)
(* through get_async_session.                                              *)
(***************************************************************************)
delete_audio_file(t, file_id) ==
    LET audio == get_audio_file(file_id)
    IN  /\ LoopIdle
        /\ nops < MaxOps
        /\ FreeSlot(t)
        /\ nops' = nops + 1
        /\ IF audio = None
           THEN /\ tasks' = tasks
                /\ last' = [n |-> nops + 1, op |-> "delete_audio_file", file_id |-> file_id,
                            ret |-> FALSE, status |-> get_async_session(404)]
           ELSE /\ tasks' = [tasks EXCEPT ![t] =
                      [pc |-> "loaded", n |-> nops + 1, file_id |-> file_id,
                       file_path |-> join(UPLOAD_DIR, audio.file_path)]]
                /\ last' = last
        /\ UNCHANGED <<dirs, files, table, nextId, served, probe, wrote, returned>>

\* a file step that lets the error of a missing file end the request
DeleteRemoveRaisesOnMissing(t) ==
    LET me == tasks[t]
        found == exists(me.file_path, dirs, files)
    IN  /\ LoopIdle
        /\ me.pc = "loaded"
        /\ files' = IF found THEN remove(me.file_path, dirs, files) ELSE files
        /\ IF found
           THEN /\ tasks' = Handles([tasks EXCEPT ![t] =
                      [pc |-> "deleting", n |-> me.n, file_id |-> me.file_id,
                       file_path |-> me.file_path, found |-> found]],
                                    remove(me.file_path, dirs, files))
                /\ last' = last
           ELSE /\ tasks' = [tasks EXCEPT ![t] = Idle]
                /\ last' = [n |-> me.n, op |-> "delete_audio_file",
                            file_id |-> me.file_id, ret |-> FALSE, status |-> 500]
        /\ UNCHANGED <<dirs, table, nextId, nops, served, probe, wrote, returned>>

(***************************************************************************)
(* delete_audio_file from the loaded row to `await session.commit()`:      *)
(* the file is removed when it exists; a missing file, or an os.remove     *)
(* that raises, is logged and nothing else.                                *)
(***************************************************************************)
delete_remove(t) ==
    LET me == tasks[t]
    IN  /\ LoopIdle
        /\ me.pc = "loaded"
        /\ \E found \in {exists(me.file_path, dirs, files)} :
           \E left \in {IF found THEN remove(me.file_path, dirs, files) ELSE files} :
              /\ files' = left
              /\ tasks' = Handles([tasks EXCEPT ![t] =
                    [pc |-> "deleting", n |-> me.n, file_id |-> me.file_id,
                     file_path |-> me.file_path, found |-> found]], left)
        /\ UNCHANGED <<dirs, table, nextId, nops, last, served, probe, wrote, returned>>

(***************************************************************************)
(* delete_audio_file: the commit deletes the row (a row that is gone by    *)
(* then makes the DELETE match nothing, which the ORM only warns about)    *)
(* and the handler returns True.                                           *)
(***************************************************************************)
delete_commit(t) ==
    LET me == tasks[t]
    IN  /\ LoopIdle
        /\ me.pc = "deleting"
        /\ table' = [i \in DOMAIN table \ {me.file_id} |-> table[i]]
        /\ tasks' = [tasks EXCEPT ![t] = Idle]
        /\ last' = [n |-> me.n, op |-> "delete_audio_file", file_id |-> me.file_id,
                    ret |-> TRUE, status |-> 200, found |-> me.found]
        /\ served' = [served EXCEPT !.deletes = @ + 1]
        /\ UNCHANGED <<dirs, files, nextId, nops, probe, wrote, returned>>

\* a directory delete that also deletes the rows stored below its target
DeleteDirectoryCascades(model_name, relative_path) ==
    /\ LoopIdle
    /\ nops < MaxOps
    /\ nops' = nops + 1
    /\ \E result \in {delete_directory(model_name, relative_path, dirs, files)} :
          /\ dirs' = result.dirs
          /\ files' = result.files
          /\ table' = [i \in {j \in DOMAIN table :
                                 \/ result.status # "deleted"
                                 \/ ~Under(abspath(join(UPLOAD_DIR, table[j].file_path)),
                                           AbsTargetDirOf(<<model_name, relative_path>>))}
                          |-> table[i]]
          /\ last' = [n |-> nops + 1, op |-> "delete_directory",
                      model_name |-> model_name, relative_path |-> relative_path,
                      result |-> result.status,
                      status |-> IF result.status = "error" THEN 400
                                 ELSE IF result.status = "not_found" THEN 404
                                 ELSE 200]
          /\ tasks' = Handles(tasks, result.files)
    /\ UNCHANGED <<nextId, served, probe, wrote, returned>>

(***************************************************************************)
(* routes.py delete_audio_directory: relative_path is a plain query        *)
(* parameter, passed to delete_directory as it came; error gives 400,      *)
(* not_found 404, deleted 200.  The route has no session dependency, so    *)
(* its HTTPException reaches the client as raised.                         *)
(***************************************************************************)
delete_audio_directory(model_name, relative_path) ==
    /\ LoopIdle
    /\ nops < MaxOps
    /\ nops' = nops + 1
    /\ \E result \in {delete_directory(model_name, relative_path, dirs, files)} :
          /\ dirs' = result.dirs
          /\ files' = result.files
          /\ last' = [n |-> nops + 1, op |-> "delete_directory",
                      model_name |-> model_name, relative_path |-> relative_path,
                      result |-> result.status,
                      status |-> IF result.status = "error" THEN 400
                                 ELSE IF result.status = "not_found" THEN 404
                                 ELSE 200]
          /\ tasks' = Handles(tasks, result.files)
    /\ UNCHANGED <<table, nextId, served, probe, wrote, returned>>

(***************************************************************************)
(* routes.py download_audio_file: `await services.get_audio_file`.         *)
(* Without a row (or with an empty file_path) the route raises             *)
(* HTTPException(404), which reaches the client through get_async_session; *)
(* otherwise it returns FileResponse(audio.file_path), the stored path as  *)
(* it is.                                                                  *)
(***************************************************************************)
download_audio_file(t, file_id) ==
    /\ LoopIdle
    /\ nops < MaxOps
    /\ FreeSlot(t)
    /\ nops' = nops + 1
    /\ \E audio \in {get_audio_file(file_id)} :
          IF audio = None \/ audio.file_path = ""
          THEN /\ tasks' = tasks
               /\ last' = [n |-> nops + 1, op |-> "download_audio_file",
                           file_id |-> file_id, status |-> get_async_session(404),
                           body |-> <<>>, complete |-> TRUE]
          ELSE /\ tasks' = [tasks EXCEPT ![t] =
                     [pc |-> "respond", n |-> nops + 1, file_id |-> file_id,
                      file_path |-> audio.file_path]]
               /\ last' = last
    /\ UNCHANGED <<dirs, files, table, nextId, served, probe, wrote, returned>>

\* FileResponse, the os.stat of its path resolved to r: 200 for a regular
\* file; the RuntimeError of a path that is none, which the server answers
\* with 500
FileResponse(r, F) == IF r # "" /\ r \in DOMAIN F THEN 200 ELSE 500

(***************************************************************************)
(* FileResponse, `await anyio.to_thread.run_sync(os.stat, path)`: the stat *)
(* itself, in a worker thread.  The path is taken relative to the working  *)
(* directory of the process.                                               *)
(***************************************************************************)
os_stat(t) ==
    LET me == tasks[t]
    IN  /\ me.pc = "respond"
        /\ \E at \in {OsLookup(me.file_path, dirs)} :
              tasks' = [tasks EXCEPT ![t] =
                  [pc |-> "stat", n |-> me.n, file_id |-> me.file_id,
                   file_path |-> me.file_path, status |-> FileResponse(at, files),
                   length |-> IF FileResponse(at, files) = 200 THEN Size(files[at])
                              ELSE 0]]
        /\ UNCHANGED <<dirs, files, table, nextId, nops, last, served, probe, wrote,
                       returned>>

(***************************************************************************)
(* FileResponse with the result of os.stat, back on the event loop: for a  *)
(* regular file the status line and the headers go out, with the size that *)
(* os.stat gave as content-length, and the open of the file is handed to a *)
(* worker thread; otherwise the response ends with 500.                    *)
(***************************************************************************)
download_send(t) ==
    LET me == tasks[t]
    IN  /\ LoopIdle
        /\ me.pc = "stat"
        /\ IF me.status = 200
           THEN /\ tasks' = [tasks EXCEPT ![t] =
                      [pc |-> "headers", n |-> me.n, file_id |-> me.file_id,
                       file_path |-> me.file_path, length |-> me.length]]
                /\ last' = last
           ELSE /\ tasks' = [tasks EXCEPT ![t] = Idle]
                /\ last' = [n |-> me.n, op |-> "download_audio_file",
                            file_id |-> me.file_id, file_path |-> me.file_path,
                            status |-> me.status, body |-> <<>>, complete |-> TRUE]
        /\ UNCHANGED <<dirs, files, table, nextId, nops, served, probe, wrote, returned>>

(***************************************************************************)
(* FileResponse, `await anyio.open_file(path, "rb")`: the open itself, in  *)
(* a worker thread.  A path that is no regular file any more makes it      *)
(* raise (FileNotFoundError, IsADirectoryError).                           *)
(***************************************************************************)
open_rb(t) ==
    LET me == tasks[t]
    IN  /\ me.pc = "headers"
        /\ \E at \in {OsLookup(me.file_path, dirs)} :
           \E ok \in {at # "" /\ at \in DOMAIN files} :
              tasks' = [tasks EXCEPT ![t] =
                  [pc |-> "open", n |-> me.n, file_id |-> me.file_id,
                   file_path |-> me.file_path, length |-> me.length,
                   ok |-> ok, at |-> at, linked |-> ok,
                   data |-> IF ok THEN files[at] ELSE Empty]]
        /\ UNCHANGED <<dirs, files, table, nextId, nops, last, served, probe, wrote,
                       returned>>

(***************************************************************************)
(* FileResponse with the result of the open, back on the event loop: with  *)
(* the file open the first read is handed to a worker thread; an open that *)
(* raised ends the response with status 200 sent and no body.              *)
(***************************************************************************)
download_open(t) ==
    LET me == tasks[t]
    IN  /\ LoopIdle
        /\ me.pc = "open"
        /\ IF me.ok
           THEN /\ tasks' = [tasks EXCEPT ![t] =
                      [pc |-> "opened", n |-> me.n, file_id |-> me.file_id,
                       file_path |-> me.file_path, length |-> me.length,
                       at |-> me.at, linked |-> me.linked, data |-> me.data,
                       body |-> <<>>, chunk |-> <<>>]]
                /\ last' = last
           ELSE /\ tasks' = [tasks EXCEPT ![t] = Idle]
                /\ last' = [n |-> me.n, op |-> "download_audio_file",
                            file_id |-> me.file_id, file_path |-> me.file_path,
                            status |-> 200, length |-> me.length, body |-> <<>>,
                            complete |-> FALSE]
        /\ UNCHANGED <<dirs, files, table, nextId, nops, served, probe, wrote, returned>>

(***************************************************************************)
(* FileResponse, `chunk = await file.read(chunk_size)`: the read itself,   *)
(* in a worker thread.  It copies the file from where the reader stands,   *)
(* piece by piece, each piece as the file holds it when it is copied; the  *)
(* read is over when the chunk is one whole block or the file has no byte  *)
(* left.                                                                   *)
(***************************************************************************)
file_read(t) ==
    LET me == tasks[t]
    IN  /\ me.pc = "opened"
        /\ \E position \in {Len(me.body) + Len(me.chunk)} :
              IF position < Len(me.data)
              THEN \E chunk \in {Append(me.chunk, me.data[position + 1])} :
                      tasks' = [tasks EXCEPT ![t] =
                          [me EXCEPT !.chunk = chunk,
                                     !.pc = IF Len(chunk) = ChunkPieces THEN "chunk"
                                            ELSE "opened"]]
              ELSE tasks' = [tasks EXCEPT ![t] = [me EXCEPT !.pc = "chunk"]]
        /\ UNCHANGED <<dirs, files, table, nextId, nops, last, served, probe, wrote,
                       returned>>

(***************************************************************************)
(* FileResponse with the chunk, back on the event loop: `more_body =       *)
(* len(chunk) == chunk_size` and `await send(...)` of the chunk.  After a  *)
(* whole block the next read is handed to a worker thread; a shorter       *)
(* chunk, or none, ends the body and the response.                         *)
(***************************************************************************)
download_read(t) ==
    LET me == tasks[t]
    IN  /\ LoopIdle
        /\ me.pc = "chunk"
        /\ \E body \in {me.body \o me.chunk} :
              IF Len(me.chunk) = ChunkPieces
              THEN /\ tasks' = [tasks EXCEPT ![t] =
                         [me EXCEPT !.pc = "opened", !.body = body, !.chunk = <<>>]]
                   /\ last' = last
              ELSE /\ tasks' = [tasks EXCEPT ![t] = Idle]
                   /\ last' = [n |-> me.n, op |-> "download_audio_file",
                               file_id |-> me.file_id, file_path |-> me.file_path,
                               status |-> 200, length |-> me.length, body |-> body,
                               complete |-> TRUE]
        /\ UNCHANGED <<dirs, files, table, nextId, nops, served, probe, wrote, returned>>

Next ==
    \/ \E r \in UploadRequests : upload_audio_rejected(r[1], r[2], r[3])
    \/ \E t \in Slots, r \in UploadRequests :
          \E size \in UploadSizes(r[3]) : upload_audio(t, r[1], r[2], r[3], size)
    \/ \E t \in Slots : save_open(t)
    \/ \E t \in Slots : save_write(t)
    \/ \E t \in Slots : save_commit(t)
    \/ \E t \in Slots : save_refresh(t)
    \/ \E t \in Slots, i \in Ids : delete_audio_file(t, i)
    \/ \E t \in Slots : delete_remove(t)
    \/ \E t \in Slots : delete_commit(t)
    \/ \E r \in DirRequests : delete_audio_directory(r[1], r[2])
    \/ \E t \in Slots, i \in Ids : download_audio_file(t, i)
    \/ \E t \in Slots : os_stat(t)
    \/ \E t \in Slots : download_send(t)
    \/ \E t \in Slots : open_rb(t)
    \/ \E t \in Slots : download_open(t)
    \/ \E t \in Slots : file_read(t)
    \/ \E t \in Slots : download_read(t)

Spec == Init /\ [][Next]_vars

(***************************************************************************)
(* The normalizer on its own: it is called once on a string drawn from     *)
(* all strings over Alphabet of length up to MaxLen and from the examples  *)
(* of the specification.                                                   *)
(***************************************************************************)
\* the last character is U+000B, a whitespace character other than the space
Alphabet == {"a", ".", "/", "\\", " ", ""}

RECURSIVE StringsUpTo(_)
StringsUpTo(n) ==
    IF n = 0 THEN {""}
    ELSE LET shorter == StringsUpTo(n - 1)
         IN  shorter \cup {s \o c : s \in shorter, c \in Alphabet}

Examples == {"songs/episode1.mp3", "a/v1.2", "songs", "   ", "../../etc"}

NormInit ==
    /\ dirs = {"/", "/app", "/app/etc", "/app/uploads2"}
    /\ files = [q \in {"/app/etc/app.conf", "/app/uploads2/old.wav"} |->
                    Content(0, Small)]
    /\ table = <<>>
    /\ nextId = 1
    /\ tasks = [t \in Slots |-> Idle]
    /\ nops = 0
    /\ last = [n |-> 0, op |-> "none"]
    /\ served = [uploads |-> 0, deletes |-> 0]
    /\ probe \in {[arg |-> a, called |-> FALSE, ret |-> ""] :
                     a \in StringsUpTo(MaxLen) \cup Examples}
    /\ wrote = [n |-> 0]
    /\ returned = {}

normalize_call ==
    /\ ~probe.called
    /\ probe' = [arg |-> probe.arg, called |-> TRUE,
                 ret |-> _normalize_relative_path(probe.arg)]
    /\ UNCHANGED <<dirs, files, table, nextId, tasks, nops, last, served, wrote,
                   returned>>

NormNext == normalize_call

NormSpec == NormInit /\ [][NormNext]_vars

(***************************************************************************)
(* Vocabulary of the properties.                                           *)
(***************************************************************************)
\* v contains "..", starts with "/", contains a backslash or one of <>:"|?*
Unsafe(v) ==
    \/ \E i \in 1..(Len(v) - 1) : Ch(v, i) = "." /\ Ch(v, i + 1) = "."
    \/ (v # "" /\ Ch(v, 1) = "/")
    \/ \E i \in 1..Len(v) : Ch(v, i) \in {"\\", "<", ">", ":", "\"", "|", "?", "*"}

\* this step starts upload request r: it is refused or fails at once, or its
\* handler is now in flight
UploadArrives(r) ==
    /\ nops' = nops + 1
    /\ \/ /\ last'.n = nops'
          /\ last'.op = "upload_audio"
          /\ <<last'.model_name, last'.relative_path, last'.filename>> = r
       \/ \E t \in Slots :
             /\ tasks'[t].pc = "read"
             /\ tasks'[t].n = nops'
             /\ <<tasks'[t].model_name, tasks'[t].relative_path, tasks'[t].filename>> = r

\* this step is directory-delete request r
DirDeleteArrives(r) ==
    /\ nops' = nops + 1
    /\ last'.n = nops'
    /\ last'.op = "delete_directory"
    /\ <<last'.model_name, last'.relative_path>> = r

\* nothing exists at the absolute path p
Missing(p) == p \notin dirs /\ p \notin DOMAIN files

\* the filesystem is as it was
SameDisk == dirs' = dirs /\ files' = files

(***************************************************************************)
(* C1.  delete_directory on a target whose absolute path is neither the    *)
(* absolute upload root nor below it returns "error" and leaves the        *)
(* filesystem unchanged.  The code compares by string prefix, so a sibling *)
(* of the root whose name starts with the root's name passes the check.    *)
(***************************************************************************)
C1_OutsideRootRefused ==
    [][\A r \in DirRequests :
          (DirDeleteArrives(r) /\ ~Under(AbsTargetDirs[r], abs_upload_dir))
          => (last'.result = "error" /\ SameDisk)]_vars

(***************************************************************************)
(* C2.  The directory-delete endpoint answers 400 to every unsafe          *)
(* relative_path and removes nothing.  The route has no validation: the    *)
(* path goes to delete_directory as it came.                               *)
(***************************************************************************)
C2_UnsafeDirPathRejected ==
    [][\A r \in DirRequests :
          (DirDeleteArrives(r) /\ Unsafe(r[2]))
          => (last'.status = 400 /\ SameDisk)]_vars

(***************************************************************************)
(* C3.  An upload request whose relative_path is unsafe is refused by      *)
(* validate_path before save_audio_file runs: no handler is started, and   *)
(* the filesystem and the table are as they were.                          *)
(***************************************************************************)
C3_UnsafeUploadRejected ==
    [][\A r \in UploadRequests :
          (UploadArrives(r) /\ Unsafe(r[2]))
          => /\ last'.n = nops'
             /\ last'.status = "rejected"
             /\ SameDisk
             /\ UNCHANGED <<table, nextId, tasks>>]_vars

C3_Witness ==
    /\ last.op = "upload_audio"
    /\ last.status = "rejected"
    /\ Unsafe(last.relative_path)

(***************************************************************************)
(* C4.  Every row's file_path begins with the segment that is the row's    *)
(* model.  os.path.join drops the model when the uploaded file name is     *)
(* absolute.                                                               *)
(***************************************************************************)
C4_PathBeginsWithModel ==
    \A i \in DOMAIN table : StartsWith(table[i].file_path, table[i].whisper_model \o "/")

(***************************************************************************)
(* C5.  As claimed: delete_directory on a target that does not exist       *)
(* returns "not_found", whatever the model and the path.                   *)
(***************************************************************************)
C5_MissingIsNotFound ==
    [][\A r \in DirRequests :
          (DirDeleteArrives(r) /\ Missing(AbsTargetDirs[r]))
          => last'.result = "not_found"]_vars

(***************************************************************************)
(* C5, amended.  delete_directory on a target that does not exist and is   *)
(* the upload root or below it returns "not_found", never "error", and     *)
(* removes nothing.  (For a target outside the root the containment check  *)
(* runs before the existence check.)                                       *)
(***************************************************************************)
C5_MissingInsideIsNotFound ==
    [][\A r \in DirRequests :
          (/\ DirDeleteArrives(r)
           /\ Missing(AbsTargetDirs[r])
           /\ Under(AbsTargetDirs[r], abs_upload_dir))
          => (last'.result = "not_found" /\ SameDisk)]_vars

C5_Witness ==
    /\ last.op = "delete_directory"
    /\ last.result = "not_found"
    /\ Missing(AbsTargetDirs[<<last.model_name, last.relative_path>>])
    /\ Under(AbsTargetDirs[<<last.model_name, last.relative_path>>], abs_upload_dir)

(***************************************************************************)
(* C6.  delete_audio_file on a record whose file is missing from disk      *)
(* raises nothing at the file step, returns True and removes the row:      *)
(* get_audio_file then returns nothing and list_audio_files omits the id.  *)
(***************************************************************************)
C6_MissingFileStillDeletes ==
    [][\A t \in Slots :
          /\ (/\ tasks[t].pc = "loaded"
              /\ tasks'[t] # tasks[t]
              /\ Missing(abspath(tasks[t].file_path)))
             => (tasks'[t].pc = "deleting" /\ SameDisk)
          /\ (/\ tasks[t].pc = "deleting"
              /\ ~tasks[t].found
              /\ tasks'[t] # tasks[t])
             => /\ last'.n = tasks[t].n
                /\ last'.ret = TRUE
                /\ last'.status = 200
                /\ \A id \in Ids :
                      id = tasks[t].file_id
                      => (get_audio_file(id))' = None /\ id \notin list_audio_files']_vars

C6_Witness ==
    /\ last.op = "delete_audio_file"
    /\ last.ret = TRUE
    /\ ~last.found
    /\ last.file_id \notin DOMAIN table

(***************************************************************************)
(* C7.  While no delete has removed a row, list_audio_files returns as     *)
(* many rows as uploads have succeeded (none after zero uploads), with     *)
(* pairwise distinct ids, also when several uploads name the same model,   *)
(* directory and file.  An upload that has committed and not yet returned  *)
(* is not one of the N that succeeded, and its row is counted apart.       *)
(***************************************************************************)
C7_ListCountsUploads ==
    served.deletes = 0
    => \E committed \in {{t \in Slots : tasks[t].pc = "refresh"}} :
          /\ Cardinality(list_audio_files) = served.uploads + Cardinality(committed)
          /\ (served.uploads = 0 /\ committed = {} => list_audio_files = {})

C7_Witness ==
    /\ served.deletes = 0
    /\ served.uploads = 2
    /\ \A t \in Slots : tasks[t] = Idle
    /\ Cardinality(list_audio_files) = 2
    /\ \E i, j \in DOMAIN table : i # j /\ table[i].file_path = table[j].file_path

(***************************************************************************)
(* C8.  When makedirs or the write fails in save_audio_file, the request   *)
(* ends with the error and the table is as it was; a row is inserted only  *)
(* by a handler that has written its file.                                 *)
(***************************************************************************)
C8_FailedSaveInsertsNothing ==
    [][/\ \A r \in UploadRequests :
             (/\ UploadArrives(r)
              /\ ~Unsafe(r[2])
              /\ LET root == makedirs(UPLOAD_DIR, dirs, files)
                 IN  ~root.ok \/ ~makedirs(SavePaths[r].target_dir, root.dirs, files).ok)
             => /\ last'.n = nops'
                /\ last'.status = "error"
                /\ UNCHANGED <<table, nextId, tasks>>
       /\ \A t \in Slots :
             (/\ tasks[t].pc = "read"
              /\ tasks'[t] # tasks[t]
              /\ ~open_wb(tasks[t].file_path, dirs, files).ok)
             => /\ last'.n = tasks[t].n
                /\ last'.status = "error"
                /\ tasks'[t] = Idle
                /\ UNCHANGED <<table, nextId>>
       /\ \A t \in Slots :
             (tasks[t].pc = "write" /\ tasks'[t] = Idle)
             => /\ last'.n = tasks[t].n
                /\ last'.status = "error"
                /\ UNCHANGED <<table, nextId>>
       /\ (table' # table /\ ~(DOMAIN table' \subseteq DOMAIN table))
             => \E t \in Slots : tasks[t].pc = "commit" /\ tasks'[t].pc = "refresh"]_vars

C8_Witness ==
    /\ last.op = "upload_audio"
    /\ last.status = "error"
    /\ last.failed = "write"
    /\ table = <<>>

\* no segment after the last slash of p contains a dot
NoDotInLastSegment(p) ==
    ~\E i \in 1..Len(p) : Ch(p, i) = "." /\ \A j \in (i + 1)..Len(p) : Ch(p, j) # "/"

\* p has no dot in its last segment, no slash at either end and no backslash
ClaimedNormalized(p) ==
    /\ NoDotInLastSegment(p)
    /\ p = "" \/ (Ch(p, 1) # "/" /\ Ch(p, Len(p)) # "/")
    /\ \A i \in 1..Len(p) : Ch(p, i) # "\\"

(***************************************************************************)
(* C9.  As claimed: a path with no dot in its last segment, no leading or  *)
(* trailing slash and no backslash is returned unchanged.                  *)
(***************************************************************************)
C9_NormalizedUnchanged ==
    (probe.called /\ ClaimedNormalized(probe.arg)) => probe.ret = probe.arg

(***************************************************************************)
(* C9, amended.  A path with no dot in its last segment, no leading or     *)
(* trailing slash, no leading or trailing whitespace and no backslash is   *)
(* returned unchanged.                                                     *)
(***************************************************************************)
C9_TrimmedNormalizedUnchanged ==
    (/\ probe.called
     /\ ClaimedNormalized(probe.arg)
     /\ probe.arg = "" \/ (Ch(probe.arg, 1) \notin Whitespace
                           /\ Ch(probe.arg, Len(probe.arg)) \notin Whitespace))
    => probe.ret = probe.arg

C9_Witness ==
    /\ probe.called
    /\ probe.arg = "a/a"
    /\ probe.ret = "a/a"

\* s without the leading and trailing characters that are in chars
Trimmed(s, chars) ==
    LET keep == {i \in 1..Len(s) : Ch(s, i) \notin chars}
    IN  IF keep = {} THEN ""
        ELSE SubSeq(s, CHOOSE i \in keep : \A j \in keep : i <= j,
                       CHOOSE i \in keep : \A j \in keep : j <= i)

\* s with every backslash turned into a slash
Slashed(s) ==
    IF s = "" THEN ""
    ELSE LET c == [i \in 1..Len(s) |-> IF Ch(s, i) = "\\" THEN "/" ELSE Ch(s, i)]
             F[i \in 0..Len(s)] == IF i = 0 THEN "" ELSE F[i - 1] \o c[i]
         IN  F[Len(s)]

\* the part of p before its last segment, without the slashes that end it
ParentPortion(p) ==
    LET at == {i \in 1..Len(p) : Ch(p, i) = "/"}
        keep == {i \in 1..Len(p) : Ch(p, i) # "/" /\ \E j \in at : i < j}
    IN  IF keep = {} THEN ""
        ELSE SubSeq(p, 1, CHOOSE i \in keep : \A j \in keep : j <= i)

\* the rule applied to a trimmed path
RuleOn(path) ==
    IF path = "" THEN ""
    ELSE IF ~NoDotInLastSegment(path) THEN ParentPortion(path)
    ELSE path

(***************************************************************************)
(* C10.  The normalizer equals the reference rule: backslashes become      *)
(* slashes, whitespace and slashes are trimmed from both ends, an empty    *)
(* result gives "", a dotted last segment gives the parent portion, and    *)
(* anything else the trimmed path.  The code trims whitespace once and     *)
(* slashes after it, so whitespace that the slashes enclosed stays.        *)
(***************************************************************************)
C10_ReferenceRule ==
    probe.called
    => probe.ret = RuleOn(Trimmed(Slashed(probe.arg), Whitespace \cup {"/"}))

\* this step starts a download of record id: it is answered at once, or its
\* handler is now in flight
DownloadArrives(id) ==
    /\ nops' = nops + 1
    /\ \/ /\ last'.n = nops'
          /\ last'.op = "download_audio_file"
          /\ last'.file_id = id
       \/ \E t \in Slots :
             /\ tasks'[t].pc = "respond"
             /\ tasks'[t].n = nops'
             /\ tasks'[t].file_id = id

\* where the upload of row id wrote its file: <upload root>/<stored path>,
\* "" when nothing can be there
StoredAt(id) == OsResolve(join(UPLOAD_DIR, table[id].file_path), dirs)

(***************************************************************************)
(* C11.  A download of an id without a row is answered 404; a download of  *)
(* a row that exists, whose file is on disk where the upload wrote it, is  *)
(* answered 200, opens that file and sends what it holds.  The code hands  *)
(* the stored path to FileResponse without the upload root in front of it, *)
(* and its 404 reaches the client as the 500 of get_async_session.         *)
(***************************************************************************)
C11_DownloadRoundTrip ==
    [][/\ \A id \in Ids :
             (DownloadArrives(id) /\ id \notin DOMAIN table)
             => (last'.n = nops' /\ last'.status = 404)
       /\ \A t \in Slots :
             (/\ tasks[t].pc = "respond"
              /\ tasks'[t] # tasks[t]
              /\ tasks[t].file_id \in DOMAIN table
              /\ StoredAt(tasks[t].file_id) \in DOMAIN files)
             => /\ tasks'[t].pc = "stat"
                /\ tasks'[t].status = 200
       /\ \A t \in Slots :
             (/\ tasks[t].pc = "headers"
              /\ tasks'[t] # tasks[t]
              /\ tasks[t].file_id \in DOMAIN table
              /\ StoredAt(tasks[t].file_id) \in DOMAIN files)
             => /\ tasks'[t].pc = "open"
                /\ tasks'[t].ok
                /\ tasks'[t].at = StoredAt(tasks[t].file_id)
                /\ tasks'[t].data = files[StoredAt(tasks[t].file_id)]
       /\ \A t \in Slots :
             (tasks[t].pc = "chunk" /\ tasks'[t] = Idle)
             => /\ last'.status = 200
                /\ last'.complete]_vars

(***************************************************************************)
(* C12.  Of two delete_audio_file requests for the same id that both       *)
(* loaded the row, the one whose commit removes the row reports deleted    *)
(* (True, 200) and the one whose commit finds the row gone reports         *)
(* not-found (False, 404).  In the code a request that loaded the row      *)
(* returns True whatever its commit finds.                                 *)
(***************************************************************************)
C12_SecondDeleteNotFound ==
    [][\A t \in Slots :
          (tasks[t].pc = "deleting" /\ tasks'[t] = Idle)
          => /\ last'.n = tasks[t].n
             /\ IF tasks[t].file_id \in DOMAIN table
                THEN last'.ret = TRUE /\ last'.status = 200
                ELSE last'.ret = FALSE /\ last'.status = 404]_vars

\* upload requests r and s go to the same target: the same model, the same
\* normalized directory and the same file name
SameTarget(r, s) ==
    /\ r[1] = s[1]
    /\ SavePaths[r].target_dir = SavePaths[s].target_dir
    /\ r[3] = s[3]

(***************************************************************************)
(* C13.  Last write wins.  Once two uploads of the same target have both   *)
(* returned their record, and no other request has been made, the target   *)
(* is one file that holds the complete content of the upload whose write   *)
(* to disk ended last, and nothing of the other; each upload has a row of  *)
(* its own, and both rows have the same stored path.                       *)
(***************************************************************************)
C13_LastWriteWins ==
    \A a, b \in returned :
       (nops = 2 /\ a.n # b.n /\ SameTarget(a.request, b.request))
       => /\ wrote.n \in {a.n, b.n}
          /\ wrote.at = OsResolve(SavePaths[a.request].file_path, dirs)
          /\ wrote.at \in DOMAIN files
          /\ \A w \in {a, b} : w.n = wrote.n => files[wrote.at] = w.content
          /\ a.id # b.id
          /\ DOMAIN table = {a.id, b.id}
          /\ table[a.id].file_path = SavePaths[a.request].db_file_path
          /\ table[b.id].file_path = SavePaths[a.request].db_file_path

\* two uploads of the same target have returned, a long body that arrived
\* first and wrote last and a short one, and the file holds the long body
C13_Witness ==
    /\ nops = 2
    /\ \E a, b \in returned :
          /\ a.n = 1
          /\ b.n = 2
          /\ SameTarget(a.request, b.request)
          /\ Len(a.content) = Big
          /\ Len(b.content) = Small
          /\ wrote.n = 1
          /\ files[wrote.at] = a.content
    /\ \A t \in Slots : tasks[t] = Idle
    /\ DOMAIN table = {1, 2}
    /\ table[1].file_path = table[2].file_path

(***************************************************************************)
(* C14.  The directory-delete endpoint answers 404 when the directory is   *)
(* missing, 400 when the safety check fails and 500 when the removal       *)
(* itself raises.  The code answers every "error" result with 400.         *)
(***************************************************************************)
C14_DirDeleteStatuses ==
    [][\A r \in DirRequests :
          DirDeleteArrives(r)
          => last'.status =
                IF ~InsideUploadDir(AbsTargetDirs[r]) THEN 400
                ELSE IF ~exists(AbsTargetDirs[r], dirs, files) THEN 404
                ELSE IF ~rmtree(AbsTargetDirs[r], dirs, files).ok THEN 500
                ELSE 200]_vars

\* this step starts a delete of record id: it is answered at once, or its
\* handler is now in flight
DeleteArrives(id) ==
    /\ nops' = nops + 1
    /\ \/ /\ last'.n = nops'
          /\ last'.op = "delete_audio_file"
          /\ last'.file_id = id
       \/ \E t \in Slots :
             /\ tasks'[t].pc = "loaded"
             /\ tasks'[t].n = nops'
             /\ tasks'[t].file_id = id

(***************************************************************************)
(* C15.  delete_audio_file for an id without a row returns False (404)     *)
(* and leaves table and disk as they were; for an id with a row it does    *)
(* not answer not-found, and when it returns it returns True (200) with    *)
(* the row gone.  In the code the 404 that the route raises reaches the    *)
(* client as the 500 of get_async_session.                                 *)
(***************************************************************************)
C15_DeleteReportsExistence ==
    [][/\ \A id \in Ids :
             DeleteArrives(id)
             => IF id \notin DOMAIN table
                THEN /\ last'.n = nops'
                     /\ last'.ret = FALSE
                     /\ last'.status = 404
                     /\ table' = table
                     /\ SameDisk
                ELSE \E t \in Slots : tasks'[t].pc = "loaded" /\ tasks'[t].n = nops'
       /\ \A t \in Slots :
             (tasks[t].pc \in {"loaded", "deleting"} /\ tasks'[t] = Idle)
             => /\ last'.n = tasks[t].n
                /\ last'.ret = TRUE
                /\ last'.status = 200
                /\ tasks[t].file_id \notin DOMAIN table']_vars

\* row id has no file where its upload wrote it
Dangling(id) == StoredAt(id) \notin DOMAIN files

(***************************************************************************)
(* C16.  delete_directory leaves the table as it was in every outcome;     *)
(* after "deleted" the rows stored below the removed directory are still   *)
(* returned by get_audio_file and list_audio_files, without a file.        *)
(***************************************************************************)
C16_DirDeleteKeepsRows ==
    [][\A r \in DirRequests :
          DirDeleteArrives(r)
          => /\ table' = table
             /\ last'.result = "deleted"
                => \A id \in DOMAIN table :
                      Under(abspath(join(UPLOAD_DIR, table[id].file_path)), AbsTargetDirs[r])
                      => /\ id \in list_audio_files'
                         /\ (get_audio_file(id))' = table[id]
                         /\ Dangling(id)']_vars

\* a directory was deleted and a row stored below it is left without a file
C16_Witness ==
    /\ last.op = "delete_directory"
    /\ last.result = "deleted"
    /\ \E id \in DOMAIN table :
          /\ Under(abspath(join(UPLOAD_DIR, table[id].file_path)),
                   AbsTargetDirs[<<last.model_name, last.relative_path>>])
          /\ Dangling(id)

\* the absolute directory of model_name: <upload root>/<model>
ModelDir(model_name) == abspath(join(UPLOAD_DIR, model_name))

(***************************************************************************)
(* C17.  Whenever delete_directory returns "deleted", the directory it     *)
(* removed is <upload root>/<model> or lies below it.  In the code a       *)
(* relative_path with ".." reaches the upload root and what is next to it. *)
(***************************************************************************)
C17_DeleteConfinedToModel ==
    [][\A r \in DirRequests :
          (DirDeleteArrives(r) /\ last'.result = "deleted")
          => /\ Under(AbsTargetDirs[r], ModelDir(r[1]))
             /\ \A d \in dirs \ dirs' : Under(d, ModelDir(r[1]))
             /\ \A f \in DOMAIN files \ DOMAIN files' : Under(f, ModelDir(r[1]))]_vars

(***************************************************************************)
(* C18.  The file an accepted upload writes lies inside                    *)
(* <upload root>/<model>/: its write creates or changes no file outside    *)
(* that directory.  In the code an absolute file name replaces the target  *)
(* directory in os.path.join.                                              *)
(***************************************************************************)
C18_UploadInsideModelDir ==
    [][\A t \in Slots :
          (tasks[t].pc \in {"read", "write"} /\ tasks'[t] # tasks[t])
          => \A f \in DOMAIN files' :
                (f \notin DOMAIN files \/ files'[f] # files[f])
                => (f # ModelDir(tasks[t].model_name)
                    /\ Under(f, ModelDir(tasks[t].model_name)))]_vars

(***************************************************************************)
(* C19.  With uploads and deletes by id only, a step of delete_audio_file  *)
(* for one row removes the file of no other row that is in the table:      *)
(* every row keeps its file.  In the code two uploads of the same target   *)
(* share one file, which the delete of either row removes.                 *)
(***************************************************************************)
C19_DeleteKeepsOthersFiles ==
    [][\A t \in Slots :
          (tasks[t].pc = "loaded" /\ tasks'[t] # tasks[t])
          => \A id \in DOMAIN table \ {tasks[t].file_id} :
                ~Dangling(id) => ~Dangling(id)']_vars

(***************************************************************************)
(* C20.  When save_audio_file commits its row, and when it returns the     *)
(* record, the file is on disk at <upload root>/<stored path>.  In the     *)
(* code a delete that runs between the write and the commit, or between    *)
(* the commit and the return, removes the file first.                      *)
(***************************************************************************)
C20_RecordHasFileAtCommit ==
    [][\A t \in Slots :
          /\ (tasks[t].pc = "commit" /\ tasks'[t] # tasks[t])
             => \A id \in DOMAIN table' \ DOMAIN table : ~Dangling(id)'
          /\ (tasks[t].pc = "refresh" /\ tasks'[t] = Idle /\ last'.status = "ok")
             => \A id \in {tasks[t].id} : ~Dangling(id)']_vars

====
